---- MODULE Spec2Model ----
(***************************************************************************)
(* RecipeSnap recipe extractor (src/recipes/recipe_extractor.py).          *)
(*                                                                         *)
(* One call of RecipeExtractor.extract_recipe is modelled as a sequential  *)
(* process: scrape_webpage, the model fallback loop, fence stripping, JSON *)
(* parsing with regex recovery, key backfill and the return.               *)
(*                                                                         *)
(* Texts are sequences of chunks.  A chunk is a string standing for a      *)
(* fixed piece of the completion: the chunk "FENCE" stands for three       *)
(* backticks, "json" for the four letters, "\n" for whitespace, "Sure" for *)
(* a word of prose, and a member chunk such as "\"title\":\"Tacos\"" for   *)
(* exactly that piece of JSON text.  Braces, brackets and commas are       *)
(* chunks of their own, so that splitting at fences and the search for a   *)
(* brace span see them where the characters are.                           *)
(***************************************************************************)
EXTENDS Integers, Sequences, FiniteSets, TLC

(***************************************************************************)
(* Python values                                                           *)
(***************************************************************************)
PyNone == [py |-> "NoneType"]
PyStr(s) == [py |-> "str", s |-> s]
PyInt(n) == [py |-> "int", n |-> n]
PyList(items) == [py |-> "list", items |-> items]
PyDict(d) == [py |-> "dict", d |-> d]

\* A str whose characters matter: the sequence of its chunks.
PyText(t) == [py |-> "str", chunks |-> t]

EmptyDict == <<>>

\* d[k] = v on a Python dict: the key is added or its value replaced.
DictSet(d, k, v) == [x \in (DOMAIN d) \cup {k} |-> IF x = k THEN v ELSE d[x]]

(***************************************************************************)
(* Chunks                                                                  *)
(***************************************************************************)
Fence == "FENCE"
JsonTag == "json"
Ws == "\n"
Prose == "Sure"
LBrace == "{"
RBrace == "}"
LBrack == "["
RBrack == "]"
Comma == ","
NumTok == "5"
NullTok == "null"

\* Member chunks "key":value whose value holds no brace and no backtick.
AtomicMember ==
    ("\"title\":\"Tacos\"" :> [key |-> "title", val |-> PyStr("Tacos")])
 @@ ("\"recipeName\":\"Tacos\"" :> [key |-> "recipeName", val |-> PyStr("Tacos")])
 @@ ("\"ingredients\":[\"1 lb beef\"]" :>
        [key |-> "ingredients", val |-> PyList(<<PyStr("1 lb beef")>>)])
 @@ ("\"ingredients\":null" :> [key |-> "ingredients", val |-> PyNone])
 @@ ("\"directions\":null" :> [key |-> "directions", val |-> PyNone])
 @@ ("\"instructions\":[\"Step 1: Brown\"]" :>
        [key |-> "instructions", val |-> PyList(<<PyStr("Step 1: Brown")>>)])
 @@ ("\"cooking_time\":\"30 minutes\"" :>
        [key |-> "cooking_time", val |-> PyStr("30 minutes")])
 @@ ("\"cuisine\":[\"Mexican\"]" :>
        [key |-> "cuisine", val |-> PyList(<<PyStr("Mexican")>>)])
 @@ ("\"main_ingredient\":[]" :> [key |-> "main_ingredient", val |-> PyList(<<>>)])
 @@ ("\"cooking_method\":[]" :> [key |-> "cooking_method", val |-> PyList(<<>>)])
 @@ ("\"meal_type\":[\"dinner\"]" :>
        [key |-> "meal_type", val |-> PyList(<<PyStr("dinner")>>)])

\* A key with its colon; the value follows as chunks of its own.
KeyPrefix == ("\"tags\":" :> "tags")

\* A string value that holds three backticks: "title":"a```b" is the three
\* chunks StrHead, Fence, StrTail.
StrHead == "\"title\":\"a"
StrTail == "b\""
StrHeadKey == "title"
StrWithFence == PyStr("aFENCEb")

(***************************************************************************)
(* str methods on texts                                                    *)
(***************************************************************************)
RECURSIVE LStrip(_)
LStrip(t) == IF t # <<>> /\ Head(t) = Ws THEN LStrip(Tail(t)) ELSE t

RECURSIVE RStrip(_)
RStrip(t) ==
    IF t # <<>> /\ t[Len(t)] = Ws THEN RStrip(SubSeq(t, 1, Len(t) - 1)) ELSE t

\* str.strip()
Strip(t) == RStrip(LStrip(t))

\* str.startswith(chunk)
StartsWith(t, c) == t # <<>> /\ Head(t) = c

\* str.split("```"): the pieces between the fences, empty pieces kept.
RECURSIVE SplitAcc(_, _, _)
SplitAcc(t, cur, acc) ==
    IF t = <<>> THEN Append(acc, cur)
    ELSE IF Head(t) = Fence THEN SplitAcc(Tail(t), <<>>, Append(acc, cur))
    ELSE SplitAcc(Tail(t), Append(cur, Head(t)), acc)

SplitFence(t) == SplitAcc(t, <<>>, <<>>)

\* str.replace("```json", "")
RECURSIVE ReplaceFenceJson(_)
ReplaceFenceJson(t) ==
    IF t = <<>> THEN <<>>
    ELSE IF Len(t) >= 2 /\ t[1] = Fence /\ t[2] = JsonTag
         THEN ReplaceFenceJson(SubSeq(t, 3, Len(t)))
    ELSE <<Head(t)>> \o ReplaceFenceJson(Tail(t))

\* str.replace("```", "")
RECURSIVE ReplaceFence(_)
ReplaceFence(t) ==
    IF t = <<>> THEN <<>>
    ELSE IF Head(t) = Fence THEN ReplaceFence(Tail(t))
    ELSE <<Head(t)>> \o ReplaceFence(Tail(t))

(***************************************************************************)
(* json.loads                                                              *)
(***************************************************************************)
RECURSIVE SkipWs(_, _)
SkipWs(t, i) == IF i <= Len(t) /\ t[i] = Ws THEN SkipWs(t, i + 1) ELSE i

ParseFail == [ok |-> FALSE]
ParseOk(v, n) == [ok |-> TRUE, val |-> v, next |-> n]

RECURSIVE ParseValue(_, _)
RECURSIVE ParseMembers(_, _, _)
RECURSIVE ParseElems(_, _, _)

\* One JSON value starting at or after position i.
ParseValue(t, i) ==
    LET j == SkipWs(t, i) IN
    IF j > Len(t) THEN ParseFail
    ELSE IF t[j] = NumTok THEN ParseOk(PyInt(5), j + 1)
    ELSE IF t[j] = NullTok THEN ParseOk(PyNone, j + 1)
    ELSE IF t[j] = LBrack THEN
        LET k == SkipWs(t, j + 1) IN
        IF k <= Len(t) /\ t[k] = RBrack THEN ParseOk(PyList(<<>>), k + 1)
        ELSE ParseElems(t, j + 1, <<>>)
    ELSE IF t[j] = LBrace THEN
        LET k == SkipWs(t, j + 1) IN
        IF k <= Len(t) /\ t[k] = RBrace THEN ParseOk(PyDict(EmptyDict), k + 1)
        ELSE ParseMembers(t, j + 1, EmptyDict)
    ELSE ParseFail

\* The elements of an array after "[", one at least.
ParseElems(t, i, acc) ==
    LET v == ParseValue(t, i) IN
    IF ~v.ok THEN ParseFail
    ELSE LET k == SkipWs(t, v.next) IN
         IF k > Len(t) THEN ParseFail
         ELSE IF t[k] = Comma THEN ParseElems(t, k + 1, Append(acc, v.val))
         ELSE IF t[k] = RBrack THEN ParseOk(PyList(Append(acc, v.val)), k + 1)
         ELSE ParseFail

\* One member of an object at position j: its key, its value and the next
\* position.
ParseMember(t, j) ==
    IF j > Len(t) THEN ParseFail
    ELSE IF t[j] \in DOMAIN AtomicMember
         THEN [ok |-> TRUE, key |-> AtomicMember[t[j]].key,
               val |-> AtomicMember[t[j]].val, next |-> j + 1]
    ELSE IF t[j] \in DOMAIN KeyPrefix
         THEN LET v == ParseValue(t, j + 1) IN
              IF v.ok THEN [ok |-> TRUE, key |-> KeyPrefix[t[j]],
                            val |-> v.val, next |-> v.next]
              ELSE ParseFail
    ELSE IF t[j] = StrHead /\ j + 2 <= Len(t) /\ t[j + 1] = Fence /\ t[j + 2] = StrTail
         THEN [ok |-> TRUE, key |-> StrHeadKey, val |-> StrWithFence, next |-> j + 3]
    ELSE ParseFail

\* The members of an object after "{", one at least; a repeated key keeps
\* its last value.
ParseMembers(t, i, acc) ==
    LET m == ParseMember(t, SkipWs(t, i)) IN
    IF ~m.ok THEN ParseFail
    ELSE LET k == SkipWs(t, m.next)
             d == DictSet(acc, m.key, m.val) IN
         IF k > Len(t) THEN ParseFail
         ELSE IF t[k] = Comma THEN ParseMembers(t, k + 1, d)
         ELSE IF t[k] = RBrace THEN ParseOk(PyDict(d), k + 1)
         ELSE ParseFail

\* json.loads(text): the value, or JSONDecodeError (ok = FALSE).
json_loads(t) ==
    LET v == ParseValue(t, 1) IN
    IF v.ok /\ SkipWs(t, v.next) > Len(t) THEN [ok |-> TRUE, val |-> v.val]
    ELSE [ok |-> FALSE]

(***************************************************************************)
(* re.search(r'\{.*\}', text, re.DOTALL)                                   *)
(***************************************************************************)
Positions(t, c) == {i \in 1..Len(t) : t[i] = c}

Min(S) == CHOOSE x \in S : \A y \in S : x <= y
Max(S) == CHOOSE x \in S : \A y \in S : x >= y

\* The greedy span from the first "{" to the last "}" after it, or no match.
re_search_braces(t) ==
    LET opens == Positions(t, LBrace)
        closes == Positions(t, RBrace) IN
    IF opens # {} /\ closes # {} /\ Max(closes) > Min(opens)
    THEN [found |-> TRUE, group |-> SubSeq(t, Min(opens), Max(closes))]
    ELSE [found |-> FALSE]

(***************************************************************************)
(* Errors                                                                  *)
(***************************************************************************)
\* The model identifiers of models_to_try, in list order.
models_to_try ==
    << "claude-3-5-sonnet-20240620", "claude-3-opus-20240229",
       "claude-3-sonnet-20240229", "claude-3-haiku-20240307" >>

NumModels == Len(models_to_try)

\* str(e) of an error of the model call is a sequence of pieces.  These
\* pieces hold the characters 404:
Has404 == {"Error code: 404", "request_id: req_404a"}

\* and these hold not_found once lowered by str.lower():
HasNotFoundLowered == {"not_found_error"}

\* The API's answer for an unknown model name.
NotFoundError(m) ==
    [cls |-> "NotFoundError", model |-> m,
     text |-> <<"Error code: 404", "not_found_error">>]

\* Errors of the other classes; the service's text may hold a request id.
OtherErrors(m) ==
    { [cls |-> "RateLimitError", model |-> m,
       text |-> <<"Error code: 429", "rate_limit_error">>],
      [cls |-> "RateLimitError", model |-> m,
       text |-> <<"Error code: 429", "rate_limit_error", "request_id: req_404a">>],
      [cls |-> "AuthenticationError", model |-> m,
       text |-> <<"Error code: 401", "authentication_error">>],
      [cls |-> "InternalServerError", model |-> m,
       text |-> <<"Error code: 500", "api_error">>] }

ModelErrors(m) == {NotFoundError(m)} \cup OtherErrors(m)

\* "404" in str(e) or "not_found" in str(e).lower()
TreatedAsNotFound(e) ==
    \/ \E i \in 1..Len(e.text) : e.text[i] \in Has404
    \/ \E i \in 1..Len(e.text) : e.text[i] \in HasNotFoundLowered

\* raise Exception(f"None of the models worked. Last error: {last_error}")
NoneWorked(last) ==
    [cls |-> "Exception", msg |-> "None of the models worked. Last error: ",
     arg |-> last]

\* raise Exception(f"AI extraction failed: {str(e)}")
AIExtractionFailed(e) ==
    [cls |-> "Exception", msg |-> "AI extraction failed: ", arg |-> e]

\* raise Exception(f"Failed to scrape URL: {str(e)}")
ScrapeFailed(e) ==
    [cls |-> "Exception", msg |-> "Failed to scrape URL: ", arg |-> e]

\* 'NoneType' / 'list' / 'int' object has no attribute 'get'
AttributeError(v) == [cls |-> "AttributeError", on |-> v.py, attr |-> "get"]

(***************************************************************************)
(* Fence stripping, parsing, backfill                                      *)
(***************************************************************************)
TagCategories == {"cuisine", "main_ingredient", "cooking_method", "meal_type"}

EmptyTags == PyDict([c \in TagCategories |-> PyList(<<>>)])

\* The empty structure of the two parse fallbacks.
EmptyStructure ==
    [k \in {"title", "ingredients", "directions", "cooking_time", "servings", "tags"} |->
        IF k \in {"ingredients", "directions"} THEN PyList(<<>>)
        ELSE IF k = "tags" THEN EmptyTags
        ELSE PyNone]

\* Remove markdown code blocks if present.
StripFences(rt) ==
    IF StartsWith(rt, Fence)
    THEN LET parts == SplitFence(rt) IN
         Strip(IF Len(parts) >= 3
               THEN IF StartsWith(parts[2], JsonTag) THEN Tail(parts[2]) ELSE parts[2]
               ELSE ReplaceFence(ReplaceFenceJson(rt)))
    ELSE rt

\* json.loads, then the brace span, then the empty structure.
ParseRecipe(rt) ==
    LET p == json_loads(rt) IN
    IF p.ok THEN p.val
    ELSE LET m == re_search_braces(rt) IN
         IF m.found
         THEN LET q == json_loads(m.group) IN
              IF q.ok THEN q.val ELSE PyDict(EmptyStructure)
         ELSE PyDict(EmptyStructure)

SetDefault(d, k, v) == IF k \in DOMAIN d THEN d ELSE DictSet(d, k, v)

\* Ensure all required fields exist.
Backfill(d) ==
    SetDefault(
      SetDefault(
        SetDefault(
          SetDefault(d, "title", PyNone),
          "ingredients", PyList(<<>>)),
        "directions", PyList(<<>>)),
      "tags", EmptyTags)

\* The part of extract_recipe_with_ai after the model answered with `text`:
\* what it returns or raises, and the locals on the way.
Normalize(text, source_url) ==
    LET rt == StripFences(Strip(text))
        data == ParseRecipe(rt) IN
    IF data.py # "dict"
    THEN [kind |-> "raise", response_text |-> rt, recipe_data |-> data,
          exc |-> AIExtractionFailed(AttributeError(data))]
    ELSE [kind |-> "return", response_text |-> rt, recipe_data |-> data,
          value |-> DictSet(Backfill(data.d), "source_url", PyStr(source_url))]

(***************************************************************************)
(* Inputs: what the model may answer                                       *)
(***************************************************************************)
MaxMembers == 2
MaxRaw == 2

TagsKey == "\"tags\":"

\* The members an answered object is built from, as chunks.
MemberForms ==
    << <<"\"title\":\"Tacos\"">>,
       <<"\"recipeName\":\"Tacos\"">>,
       <<"\"ingredients\":[\"1 lb beef\"]">>,
       <<"\"ingredients\":null">>,
       <<"\"directions\":null">>,
       <<"\"instructions\":[\"Step 1: Brown\"]">>,
       <<"\"cooking_time\":\"30 minutes\"">>,
       <<TagsKey, LBrace, "\"cuisine\":[\"Mexican\"]", RBrace>>,
       <<TagsKey, LBrace, "\"cuisine\":[\"Mexican\"]", Comma, "\"main_ingredient\":[]",
         Comma, "\"cooking_method\":[]", Comma, "\"meal_type\":[\"dinner\"]", RBrace>>,
       <<StrHead, Fence, StrTail>> >>

RECURSIVE JoinMembers(_)
JoinMembers(S) ==
    IF S = {} THEN <<>>
    ELSE LET i == CHOOSE x \in S : \A y \in S : x <= y IN
         IF S = {i} THEN MemberForms[i]
         ELSE MemberForms[i] \o <<Comma>> \o JoinMembers(S \ {i})

\* The text of the object with the members of S, as json.dumps writes it.
ObjectText(S) == <<LBrace>> \o JoinMembers(S) \o <<RBrace>>

ObjectTexts ==
    {ObjectText(S) : S \in {T \in SUBSET (1..Len(MemberForms)) : Cardinality(T) <= MaxMembers}}

\* What the model may put around an object: prose before it or after it,
\* the word json before it, or the brackets of an array.
Surroundings ==
    { <<(<<Prose>>), (<<>>)>>, <<(<<>>), (<<Prose>>)>>,
      <<(<<JsonTag>>), (<<>>)>>, <<(<<LBrack>>), (<<RBrack>>)>> }

\* The objects that are answered with something around them.
SurroundedObjectTexts ==
    {ObjectText(S) : S \in {T \in SUBSET (1..Len(MemberForms)) : Cardinality(T) <= 1}}

\* Anything else: short texts over these chunks.
RawChunks == {Fence, JsonTag, LBrace, RBrace, NumTok, NullTok}

RawTexts == UNION {[1..n -> RawChunks] : n \in 0..MaxRaw}

Payloads ==
    RawTexts \cup ObjectTexts
        \cup {sr[1] \o o \o sr[2] : sr \in Surroundings, o \in SurroundedObjectTexts}

Wraps == {"none", "fence", "fence_nl", "json_fence", "json_fence_nl", "open_fence"}

ClosedWraps == {"fence", "fence_nl", "json_fence", "json_fence_nl"}

\* The payload as the model fences it.
Wrap(p, w) ==
    CASE w = "none" -> p
      [] w = "fence" -> <<Fence>> \o p \o <<Fence>>
      [] w = "fence_nl" -> <<Fence, Ws>> \o p \o <<Ws, Fence>>
      [] w = "json_fence" -> <<Fence, JsonTag>> \o p \o <<Fence>>
      [] w = "json_fence_nl" -> <<Fence, JsonTag, Ws>> \o p \o <<Ws, Fence>>
      [] w = "open_fence" -> <<Fence, JsonTag, Ws>> \o p

Urls == {"https://a.example/tacos"}

\* What scrape_webpage may return: its text may be empty.
PageTexts == {"", "Tacos 1 lb beef Step 1: Brown"}

\* requests.RequestException raised by the GET or by raise_for_status.
RequestExceptions ==
    { [cls |-> "ConnectionError"], [cls |-> "Timeout"], [cls |-> "HTTPError"] }

(***************************************************************************)
(* State                                                                   *)
(***************************************************************************)
VARIABLES
    pc,             \* where the call of extract_recipe stands
    url,            \* its argument
    http_log,       \* the GET requests issued, in order
    webpage_text,   \* what scrape_webpage returned
    model_idx,      \* the position of the fallback loop in models_to_try
    model_log,      \* the models a request was sent for, in order
    last_error,
    message,        \* the text of the completion
    payload,        \* the completion without its fences
    wrap,           \* and how it was fenced
    response_text,
    recipe_data,    \* the value parsed from the completion, before the backfill
    result,         \* the record returned to the caller
    raised          \* the exception that reached the caller

vars == <<pc, url, http_log, webpage_text, model_idx, model_log, last_error,
          message, payload, wrap, response_text, recipe_data, result, raised>>

Init ==
    /\ pc = "ready"
    /\ url = PyNone
    /\ http_log = <<>>
    /\ webpage_text = PyNone
    /\ model_idx = 0
    /\ model_log = <<>>
    /\ last_error = PyNone
    /\ message = PyNone
    /\ payload = PyNone
    /\ wrap = "none"
    /\ response_text = PyNone
    /\ recipe_data = PyNone
    /\ result = PyNone
    /\ raised = PyNone

\* extract_recipe(url) is called.
extract_recipe(u) ==
    /\ pc = "ready"
    /\ pc' = "scrape"
    /\ url' = PyStr(u)
    /\ UNCHANGED <<http_log, webpage_text, model_idx, model_log, last_error, message,
                   payload, wrap, response_text, recipe_data, result, raised>>

\* scrape_webpage: the GET and the text extraction succeed; the call goes on
\* to extract_recipe_with_ai, whose loop starts at the first model.
scrape_webpage_ok(text) ==
    /\ pc = "scrape"
    /\ http_log' = Append(http_log, url)
    /\ webpage_text' = PyStr(text)
    /\ model_idx' = 1
    /\ pc' = "models"
    /\ UNCHANGED <<url, model_log, last_error, message, payload, wrap, response_text,
                   recipe_data, result, raised>>

\* A scrape_webpage that asks again after a failed GET.
scrape_webpage_fail_retried(e) ==
    /\ pc = "scrape"
    /\ http_log' = Append(http_log, url)
    /\ IF Len(http_log) = 0
       THEN UNCHANGED <<pc, raised>>
       ELSE raised' = ScrapeFailed(e) /\ pc' = "raised"
    /\ UNCHANGED <<url, webpage_text, model_idx, model_log, last_error, message, payload,
                   wrap, response_text, recipe_data, result>>

\* scrape_webpage: the GET fails; the error leaves extract_recipe.
scrape_webpage_fail(e) ==
    /\ pc = "scrape"
    /\ http_log' = Append(http_log, url)
    /\ raised' = ScrapeFailed(e)
    /\ pc' = "raised"
    /\ UNCHANGED <<url, webpage_text, model_idx, model_log, last_error, message, payload,
                   wrap, response_text, recipe_data, result>>

\* One turn of the loop whose request succeeds: break, then the rest of
\* extract_recipe_with_ai up to its return or its raise.
try_model_ok(p, w) ==
    /\ pc = "models"
    /\ model_idx <= NumModels
    /\ model_log' = Append(model_log, models_to_try[model_idx])
    /\ payload' = PyText(p)
    /\ wrap' = w
    /\ message' = PyText(Wrap(p, w))
    /\ \E out \in {Normalize(Wrap(p, w), url.s)} :
        /\ response_text' = PyText(out.response_text)
        /\ recipe_data' = out.recipe_data
        /\ IF out.kind = "return"
           THEN /\ result' = PyDict(out.value)
                /\ raised' = raised
                /\ pc' = "returned"
           ELSE /\ raised' = out.exc
                /\ result' = result
                /\ pc' = "raised"
    /\ UNCHANGED <<url, http_log, webpage_text, model_idx, last_error>>

\* A loop that keeps the first error it met instead of the last.
try_model_error_first_kept(e) ==
    /\ pc = "models"
    /\ model_idx <= NumModels
    /\ e \in ModelErrors(models_to_try[model_idx])
    /\ model_log' = Append(model_log, models_to_try[model_idx])
    /\ last_error' = IF last_error = PyNone THEN e ELSE last_error
    /\ IF TreatedAsNotFound(e)
       THEN /\ model_idx' = model_idx + 1
            /\ UNCHANGED <<pc, raised>>
       ELSE /\ raised' = AIExtractionFailed(e)
            /\ pc' = "raised"
            /\ UNCHANGED model_idx
    /\ UNCHANGED <<url, http_log, webpage_text, message, payload, wrap, response_text,
                   recipe_data, result>>

\* One turn of the loop whose request raises e.
try_model_error(e) ==
    /\ pc = "models"
    /\ model_idx <= NumModels
    /\ e \in ModelErrors(models_to_try[model_idx])
    /\ model_log' = Append(model_log, models_to_try[model_idx])
    /\ last_error' = e
    /\ IF TreatedAsNotFound(e)
       THEN /\ model_idx' = model_idx + 1
            /\ UNCHANGED <<pc, raised>>
       ELSE /\ raised' = AIExtractionFailed(e)
            /\ pc' = "raised"
            /\ UNCHANGED model_idx
    /\ UNCHANGED <<url, http_log, webpage_text, message, payload, wrap, response_text,
                   recipe_data, result>>

\* The loop ran out of models: message is PyNone.
models_exhausted ==
    /\ pc = "models"
    /\ model_idx > NumModels
    /\ message = PyNone
    /\ raised' = AIExtractionFailed(NoneWorked(last_error))
    /\ pc' = "raised"
    /\ UNCHANGED <<url, http_log, webpage_text, model_idx, model_log, last_error, message,
                   payload, wrap, response_text, recipe_data, result>>

Next ==
    \/ \E u \in Urls : extract_recipe(u)
    \/ \E text \in PageTexts : scrape_webpage_ok(text)
    \/ \E e \in RequestExceptions : scrape_webpage_fail(e)
    \/ \E p \in Payloads, w \in Wraps : try_model_ok(p, w)
    \/ \E i \in 1..NumModels : \E e \in ModelErrors(models_to_try[i]) : try_model_error(e)
    \/ models_exhausted

Spec == Init /\ [][Next]_vars
(***************************************************************************)
(* Properties                                                              *)
(***************************************************************************)
\* A model call succeeded and extract_recipe_with_ai has finished.
Answered == message # PyNone /\ pc \in {"returned", "raised"}

SchemaKeys ==
    {"title", "ingredients", "directions", "cooking_time", "servings", "tags", "source_url"}

\* The default the schema gives a key the model's object omitted.
SchemaDefault(k) ==
    IF k \in {"ingredients", "directions"} THEN PyList(<<>>)
    ELSE IF k = "tags" THEN EmptyTags
    ELSE IF k = "source_url" THEN url
    ELSE PyNone

\* The completion, once its fences are stripped, is a JSON document holding
\* an object.
ParsedObject ==
    /\ Answered
    /\ json_loads(response_text.chunks).ok
    /\ recipe_data.py = "dict"

\* C1: whatever text a successful model call returned (valid JSON of any
\* type, invalid JSON, empty text), extract_recipe_with_ai returns a record
\* and raises nothing.
C1_MalformedAnswerNeverRaises ==
    message # PyNone => (pc = "returned" /\ raised = PyNone /\ result.py = "dict")

\* C2: when the completion parses to a JSON object, the returned record has
\* every key of the schema, and each key the object omitted holds its
\* default.
C2_EverySchemaKeyPresent ==
    ParsedObject =>
        /\ pc = "returned"
        /\ \A k \in SchemaKeys :
            /\ k \in DOMAIN result.d
            /\ (k \notin DOMAIN recipe_data.d => result.d[k] = SchemaDefault(k))

\* C3: the models are attempted in list order, each at most once; a further
\* model is attempted only when no model has succeeded and the model before
\* it raised an error of the not-found class; the completion of the model
\* that succeeded is the one parsed and returned.
C3_FallbackOrder ==
    [][ /\ (model_log' # model_log =>
              /\ Len(model_log) < NumModels
              /\ model_log' = Append(model_log, models_to_try[Len(model_log) + 1])
              /\ message = PyNone
              /\ (model_log # <<>> =>
                    /\ last_error # PyNone
                    /\ last_error.cls = "NotFoundError"
                    /\ last_error.model = model_log[Len(model_log)]))
        /\ (message' # PyNone =>
              /\ response_text' = PyText(StripFences(Strip(message'.chunks)))
              /\ recipe_data' = ParseRecipe(response_text'.chunks)) ]_vars

\* C4: an error of a model call that is not of the not-found class leaves
\* extract_recipe_with_ai at once: it is the error raised, and the model
\* that raised it is the last one attempted.
C4_OtherErrorPropagates ==
    (last_error # PyNone /\ last_error.cls # "NotFoundError") =>
        /\ pc = "raised"
        /\ raised = AIExtractionFailed(last_error)
        /\ model_log[Len(model_log)] = last_error.model

\* The error extract_recipe_with_ai raises when the loop ran out of models.
IsNoneWorked(e) ==
    /\ e.msg = "AI extraction failed: "
    /\ e.arg.cls = "Exception"
    /\ e.arg.msg = "None of the models worked. Last error: "

\* C5: when every model raised a not-found error, no record is returned and
\* the error raised carries the error of the last model of the list; that
\* error is raised only after every model of the list was attempted.
C5_ExhaustedCarriesLastError ==
    /\ (pc = "raised" /\ IsNoneWorked(raised)) =>
          /\ model_log = models_to_try
          /\ raised.arg.arg = last_error
          /\ last_error.model = models_to_try[NumModels]
          /\ result = PyNone
          /\ message = PyNone
    /\ (/\ pc \in {"returned", "raised"}
        /\ model_log = models_to_try
        /\ message = PyNone
        /\ last_error # PyNone
        /\ last_error.cls = "NotFoundError") =>
          /\ raised = AIExtractionFailed(NoneWorked(NotFoundError(models_to_try[NumModels])))
          /\ result = PyNone

\* Every model was attempted, the last one answered not found, and the
\* "no model worked" error reached the caller.
C5_Witness ==
    /\ pc = "raised"
    /\ model_log = models_to_try
    /\ last_error = NotFoundError(models_to_try[NumModels])
    /\ raised = AIExtractionFailed(NoneWorked(last_error))

\* C6: the record produced from a payload wrapped in fences, with or without
\* the json tag, is the record produced from the payload unwrapped.
C6_FenceStrippingTransparent ==
    (Answered /\ wrap \in ClosedWraps) =>
        \A o \in {Normalize(payload.chunks, url.s)} :
            (o.kind = "return" /\ pc = "returned") => result = PyDict(o.value)

\* C7: in every returned record ingredients and directions are present and
\* are sequences.
C7_ListsNeverNull ==
    pc = "returned" =>
        \A k \in {"ingredients", "directions"} :
            k \in DOMAIN result.d /\ result.d[k].py = "list"

\* C8: in every returned record that has tags, tags has the four categories,
\* each a collection.
C8_TagsHaveFourCategories ==
    (pc = "returned" /\ "tags" \in DOMAIN result.d) =>
        /\ result.d["tags"].py = "dict"
        /\ TagCategories \subseteq DOMAIN result.d["tags"].d
        /\ \A c \in TagCategories : result.d["tags"].d[c].py = "list"

\* The value the backfill gives canonical key k whose synonym is syn.
SynonymResolved(k, syn) ==
    IF k \in DOMAIN recipe_data.d THEN result.d[k] = recipe_data.d[k]
    ELSE IF syn \in DOMAIN recipe_data.d THEN result.d[k] = recipe_data.d[syn]
    ELSE result.d[k] = SchemaDefault(k)

\* C9: title takes the value of recipeName, and directions that of
\* instructions, when the canonical key is absent and the synonym present;
\* the default is used only when both are absent.
C9_SynonymsAdopted ==
    pc = "returned" =>
        /\ SynonymResolved("title", "recipeName")
        /\ SynonymResolved("directions", "instructions")

\* C10: no request goes to a model before the one GET and the text
\* extraction succeeded; a failed GET is not retried and its error reaches
\* the caller with no model request made and no record returned; a record
\* is returned only after a model was asked.
C10_StagesInOrder ==
    /\ Len(http_log) <= 1
    /\ model_log # <<>> => (http_log = <<url>> /\ webpage_text # PyNone)
    /\ (pc = "raised" /\ raised.msg = "Failed to scrape URL: ") =>
          /\ http_log = <<url>>
          /\ webpage_text = PyNone
          /\ model_log = <<>>
          /\ result = PyNone
    /\ result # PyNone => (model_log # <<>> /\ message # PyNone)
    /\ webpage_text # PyNone => http_log = <<url>>

\* The GET failed and the fetch error reached the caller.
C10_Witness ==
    /\ pc = "raised"
    /\ raised.msg = "Failed to scrape URL: "
    /\ http_log = <<url>>
====
